---- MODULE Spec2Model ----
(***************************************************************************)
(* A model of the circuitry crate: the Controller (src/src/controller.rs)  *)
(* with its port registry and dependency graph, and the devices it drives  *)
(* (Memory, Constant, Sequencer).                                          *)
(*                                                                         *)
(* A NodeIndex is the position of a node in the graph's node list.  The    *)
(* edge list is kept as a bag: the controller never reads an edge index,   *)
(* only the number of incoming edges of a node and their sources, and a    *)
(* bag keeps parallel edges apart as petgraph's DiGraph does.              *)
(*                                                                         *)
(* Controller::tick is a loop over the ports followed by a loop over the   *)
(* devices.  It is modelled one loop iteration at a time, with pc holding  *)
(* the position inside the call; no other call starts while pc is not      *)
(* "idle", since the controller is used from one thread (&mut self).       *)
(***************************************************************************)
EXTENDS Integers, Sequences, FiniteSets, Bags, TLC

\* ------------------------------------------------------------------ bounds

\* number of add_device calls in a run
MaxAddDevice == 2

\* number of successful add_connection calls in a run
MaxConnections == 4

\* number of Controller::tick calls in a run
MaxTicks == 2

\* the port values handed to a device on its own are 0..MaxValue
MaxValue == 1

\* number of ports in one provide_port_values call on a device on its own
MaxBatch == 2

\* length of the value list a Sequencer is built from
MaxLen == 3

\* number of get_port_value / tick rounds on a Constant or Sequencer on its own
MaxSourceTicks == 9

\* ------------------------------------------------------------------ helpers

\* Option::None / Option::Some, as returned by get_port_value
None == [some |-> FALSE]

Some(v) == [some |-> TRUE, val |-> v]

\* HashMap::new()
EmptyMap == [x \in {} |-> 0]

\* HashMap::insert
Insert(m, k, v) == [x \in (DOMAIN m) \cup {k} |-> IF x = k THEN v ELSE m[x]]

\* Result::Ok / Result::Err
Ok(v) == [ok |-> TRUE, val |-> v]

Err == [ok |-> FALSE]

\* One enumeration of a HashSet.  The order only decides which node index
\* a port gets, and no definition below reads the numeric value of an index.
RECURSIVE SetToSeq(_)
SetToSeq(S) ==
    IF S = {} THEN <<>>
    ELSE LET x == CHOOSE y \in S : TRUE IN <<x>> \o SetToSeq(S \ {x})

\* ------------------------------------------------------------------ Memory

MemoryNew ==
    [kind |-> "Memory",
     data |-> EmptyMap,
     specified_this_tick |-> EmptyMap,
     in_ports |-> {"ra", "we", "wa", "wv"},
     out_ports |-> {"rv"}]

\* get_output_port_values forwarding a write of this tick: rv shows wv when
\* we is nonzero and wa is the address read
MemoryGetOutputPortValuesWriteThrough(self) ==
    LET s == self.specified_this_tick
    IN  [rv |->
            IF "ra" \in DOMAIN s
            THEN [state |-> "Known",
                  value |-> IF /\ {"we", "wa", "wv"} \subseteq DOMAIN s
                               /\ s["we"] # 0
                               /\ s["wa"] = s["ra"]
                            THEN s["wv"]
                            ELSE IF s["ra"] \in DOMAIN self.data
                            THEN self.data[s["ra"]] ELSE 0]
            ELSE [state |-> "Unknown", required |-> {"rv"}]]

\* Memory::get_output_port_values: the state of "rv"
MemoryGetOutputPortValues(self) ==
    [rv |->
        IF "ra" \in DOMAIN self.specified_this_tick
        THEN LET address == self.specified_this_tick["ra"]
             IN  [state |-> "Known",
                  value |-> IF address \in DOMAIN self.data
                            THEN self.data[address] ELSE 0]
        ELSE [state |-> "Unknown", required |-> {"rv"}]]

\* provide_port_values with the check inside the writing loop: the ports that
\* pass are recorded although the call fails on another port of the batch
MemoryProvidePortValuesCheckAsYouGo(self, values) ==
    LET good == {port \in DOMAIN values :
                    /\ port \notin DOMAIN self.specified_this_tick
                    /\ port \in self.in_ports}
        written == [self EXCEPT !.specified_this_tick =
                      [p \in (DOMAIN self.specified_this_tick) \cup good |->
                          IF p \in good THEN values[p]
                          ELSE self.specified_this_tick[p]]]
    IN  IF good # DOMAIN values
        THEN [ok |-> FALSE, self |-> written]
        ELSE [ok |-> TRUE, self |-> written,
              val |-> IF "ra" \in DOMAIN values
                      THEN [rv |-> IF values["ra"] \in DOMAIN self.data
                                   THEN self.data[values["ra"]] ELSE 0]
                      ELSE EmptyMap]

\* provide_port_values without the in_ports test: only a port supplied before
\* is refused
MemoryProvidePortValuesAnyPort(self, values) ==
    IF \E port \in DOMAIN values : port \in DOMAIN self.specified_this_tick
    THEN [ok |-> FALSE, self |-> self]
    ELSE [ok |-> TRUE,
          self |-> [self EXCEPT !.specified_this_tick =
                      [p \in (DOMAIN self.specified_this_tick) \cup (DOMAIN values) |->
                          IF p \in DOMAIN values THEN values[p]
                          ELSE self.specified_this_tick[p]]],
          val |-> EmptyMap]

\* Memory::provide_port_values: [ok, self (the device afterwards), val]
MemoryProvidePortValues(self, values) ==
    IF \E port \in DOMAIN values :
          \/ port \in DOMAIN self.specified_this_tick
          \/ port \notin self.in_ports
    THEN [ok |-> FALSE, self |-> self]
    ELSE [ok |-> TRUE,
          self |-> [self EXCEPT !.specified_this_tick =
                      [p \in (DOMAIN self.specified_this_tick) \cup (DOMAIN values) |->
                          IF p \in DOMAIN values THEN values[p]
                          ELSE self.specified_this_tick[p]]],
          val |-> IF "ra" \in DOMAIN values
                  THEN [rv |-> IF values["ra"] \in DOMAIN self.data
                               THEN self.data[values["ra"]] ELSE 0]
                  ELSE EmptyMap]

\* Memory::tick asking for wa and wv whatever we is
MemoryTickStrict(self) ==
    IF \/ "we" \notin DOMAIN self.specified_this_tick
       \/ "wa" \notin DOMAIN self.specified_this_tick
       \/ "wv" \notin DOMAIN self.specified_this_tick
    THEN [ok |-> FALSE, self |-> self]
    ELSE IF self.specified_this_tick["we"] # 0
    THEN [ok |-> TRUE,
          self |-> [self EXCEPT !.data =
                      Insert(self.data,
                             self.specified_this_tick["wa"],
                             self.specified_this_tick["wv"])]]
    ELSE [ok |-> TRUE, self |-> self]

\* Memory::tick replacing the store by the one cell it writes
MemoryTickSingleCell(self) ==
    IF "we" \notin DOMAIN self.specified_this_tick
    THEN [ok |-> FALSE, self |-> self]
    ELSE IF self.specified_this_tick["we"] # 0
    THEN IF \/ "wa" \notin DOMAIN self.specified_this_tick
            \/ "wv" \notin DOMAIN self.specified_this_tick
         THEN [ok |-> FALSE, self |-> self]
         ELSE [ok |-> TRUE,
               self |-> [self EXCEPT !.data =
                           Insert(EmptyMap,
                                  self.specified_this_tick["wa"],
                                  self.specified_this_tick["wv"])]]
    ELSE [ok |-> TRUE, self |-> self]

\* Memory::tick: [ok, self (the device afterwards)]
MemoryTick(self) ==
    IF "we" \notin DOMAIN self.specified_this_tick
    THEN [ok |-> FALSE, self |-> self]
    ELSE IF self.specified_this_tick["we"] # 0
    THEN IF \/ "wa" \notin DOMAIN self.specified_this_tick
            \/ "wv" \notin DOMAIN self.specified_this_tick
         THEN [ok |-> FALSE, self |-> self]
         ELSE [ok |-> TRUE,
               self |-> [self EXCEPT !.data =
                           Insert(self.data,
                                  self.specified_this_tick["wa"],
                                  self.specified_this_tick["wv"])]]
    ELSE [ok |-> TRUE, self |-> self]

\* Memory as the controller calls it.  memory.rs has no get_output_dependencies,
\* get_port_value or provide_port_value; they follow the Device Contract of the
\* specification, over the state and the operations memory.rs does define.
MemoryGetOutputDependencies(self, output) ==
    IF output = "rv" THEN Ok({"ra"}) ELSE Err

MemoryGetPortValue(self, port) ==
    IF port \notin self.out_ports THEN Err
    ELSE LET s == MemoryGetOutputPortValues(self)[port]
         IN  Ok(IF s.state = "Known" THEN Some(s.value) ELSE None)

MemoryProvidePortValue(self, port, value) ==
    MemoryProvidePortValues(self, [p \in {port} |-> value])

\* ------------------------------------------------------------------ Constant

\* Constant::new dropping the value it is given
ConstantNewZero(output_port, value) ==
    [kind |-> "Constant", output_port |-> output_port, value |-> 0]

ConstantNew(output_port, value) ==
    [kind |-> "Constant", output_port |-> output_port, value |-> value]

ConstantGetPortValue(self, port) ==
    IF port = self.output_port THEN Ok(Some(self.value)) ELSE Err

\* ------------------------------------------------------------------ Sequencer

\* Sequencer::new without the is_empty test
SequencerNewUnchecked(output_port, values) ==
    Ok([kind |-> "Sequencer", output_port |-> output_port,
        values |-> values, current_value_idx |-> 0])

\* Sequencer::new: Err(()) on an empty list
SequencerNew(output_port, values) ==
    IF values = <<>> THEN Err
    ELSE Ok([kind |-> "Sequencer", output_port |-> output_port,
             values |-> values, current_value_idx |-> 0])

\* get_port_value reading one place past the cursor
SequencerGetPortValueOneBased(self, port) ==
    IF port = self.output_port
    THEN Ok(IF self.current_value_idx + 1 < Len(self.values)
            THEN Some(self.values[self.current_value_idx + 2]) ELSE None)
    ELSE Err

\* values.get(current_value_idx).cloned(): the index is 0-based
SequencerGetPortValue(self, port) ==
    IF port = self.output_port
    THEN Ok(IF self.current_value_idx < Len(self.values)
            THEN Some(self.values[self.current_value_idx + 1]) ELSE None)
    ELSE Err

\* Sequencer::tick wrapping one step late (> for >=)
SequencerTickOffByOne(self) ==
    LET next == self.current_value_idx + 1
    IN  [ok |-> TRUE,
         self |-> [self EXCEPT !.current_value_idx =
                     IF next > Len(self.values) THEN 0 ELSE next]]

SequencerTick(self) ==
    LET next == self.current_value_idx + 1
    IN  [ok |-> TRUE,
         self |-> [self EXCEPT !.current_value_idx =
                     IF next >= Len(self.values) THEN 0 ELSE next]]

\* ------------------------------------------------------------------ Device trait

get_input_ports(device) ==
    IF device.kind = "Memory" THEN device.in_ports ELSE {}

get_output_ports(device) ==
    IF device.kind = "Memory" THEN device.out_ports ELSE {device.output_port}

get_output_dependencies(device, output) ==
    IF device.kind = "Memory" THEN MemoryGetOutputDependencies(device, output)
    ELSE IF output # device.output_port THEN Err ELSE Ok({})

get_port_value(device, port) ==
    CASE device.kind = "Memory" -> MemoryGetPortValue(device, port)
      [] device.kind = "Constant" -> ConstantGetPortValue(device, port)
      [] device.kind = "Sequencer" -> SequencerGetPortValue(device, port)

provide_port_value(device, port, value) ==
    IF device.kind = "Memory" THEN MemoryProvidePortValue(device, port, value)
    ELSE [ok |-> FALSE, self |-> device]

\* provide_port_values: Constant and Sequencer have no input port and fail
provide_port_values(device, values) ==
    IF device.kind = "Memory" THEN MemoryProvidePortValues(device, values)
    ELSE [ok |-> FALSE, self |-> device]

device_tick(device) ==
    CASE device.kind = "Memory" -> MemoryTick(device)
      [] device.kind = "Constant" -> [ok |-> TRUE, self |-> device]
      [] device.kind = "Sequencer" -> SequencerTick(device)

\* ------------------------------------------------------------------ petgraph

\* DiGraph::new()
DiGraphNew == [nodes |-> <<>>, edges |-> EmptyBag]

\* DiGraph::add_node: the new node's index is Len(graph.nodes) + 1
add_node(graph, weight) == [graph EXCEPT !.nodes = Append(@, weight)]

\* add_edge on a graph where a node keeps one incoming edge: the edges that
\* already end at b are dropped when the new one goes in
add_edge_rewiring(graph, a, b, kind) ==
    LET kept == {e \in BagToSet(graph.edges) : e.to # b}
    IN  [graph EXCEPT !.edges =
            [e \in kept |-> CopiesIn(e, graph.edges)]
            (+) SetToBag({[from |-> a, to |-> b, kind |-> kind]})]

\* DiGraph::add_edge: parallel edges are allowed
add_edge(graph, a, b, kind) ==
    [graph EXCEPT !.edges = @ (+) SetToBag({[from |-> a, to |-> b, kind |-> kind]})]

NodeIndices(graph) == 1..Len(graph.nodes)

EdgeSet(graph) == BagToSet(graph.edges)

\* the nodes reachable from the set S along edges of E, S included
RECURSIVE Reach(_, _)
Reach(E, S) ==
    LET T == S \cup {e.to : e \in {f \in E : f.from \in S}}
    IN  IF T = S THEN S ELSE Reach(E, T)

\* a directed path of zero or more edges from a to b
HasPath(graph, a, b) == b \in Reach(EdgeSet(graph), {a})

\* Acyclic::try_from_graph: Err when the graph has a cycle
try_from_graph(graph) ==
    IF \E e \in EdgeSet(graph) : HasPath(graph, e.to, e.from)
    THEN Err ELSE Ok(graph)

\* try_add_edge refusing self loops only
try_add_edge_self_loop_only(graph, a, b, kind) ==
    IF a = b THEN Err ELSE Ok(add_edge(graph, a, b, kind))

\* try_add_edge over a graph that keeps one edge per pair of nodes, as a
\* GraphMap does: Err on an edge that is already there
try_add_edge_no_parallel(graph, a, b, kind) ==
    IF a = b THEN Err
    ELSE IF HasPath(graph, b, a) THEN Err
    ELSE IF \E e \in EdgeSet(graph) : e.from = a /\ e.to = b THEN Err
    ELSE Ok(add_edge(graph, a, b, kind))

\* Acyclic::try_add_edge: Err on a self loop and on an edge closing a cycle
try_add_edge(graph, a, b, kind) ==
    IF a = b THEN Err
    ELSE IF HasPath(graph, b, a) THEN Err
    ELSE Ok(add_edge(graph, a, b, kind))

\* neighbors_directed(n, Incoming): the sources, one entry per incoming edge
IncomingEdges(graph, n) == {e \in EdgeSet(graph) : e.to = n}

RECURSIVE CountCopies(_, _)
CountCopies(bag, S) ==
    IF S = {} THEN 0
    ELSE LET e == CHOOSE x \in S : TRUE
         IN  CopiesIn(e, bag) + CountCopies(bag, S \ {e})

\* neighbors_directed(n, Incoming).count()
n_incoming(graph, n) == CountCopies(graph.edges, IncomingEdges(graph, n))

\* ------------------------------------------------------------------ Controller

VARIABLES
    devices,        \* Controller.devices: device identifier -> device
    ports,          \* Controller.ports: <<device id, port id>> -> node index
    dependencies,   \* Controller.dependencies: [nodes, edges]
    pc,             \* "idle", or the position inside Controller::tick
    visited,        \* tick: the nodes the port loop has been through
    result,         \* tick: the local `result` map
    ticked,         \* tick: the devices the commit loop has been through
    ret,            \* the return site of the last call that ended
    history,        \* what each returned tick returned, oldest first
    n_add_device    \* number of add_device calls so far

vars == <<devices, ports, dependencies, pc, visited, result, ticked, ret,
          history, n_add_device>>

\* The devices a run registers: identifier and freshly constructed device.
\* The identifier "m" is given to a Memory and to a Sequencer whose output
\* port carries the name of the Memory's output, so that an identifier is
\* registered again with the same and with another kind of device.
DeviceInputs ==
    {<<"m", MemoryNew>>,
     <<"c", ConstantNew("qq", 1)>>,
     <<"m", SequencerNew("rv", <<0, 1>>).val>>}

\* The add_connection calls a run makes: from device, from port, to device,
\* to port.  Wires into each Memory input, a wire closing a cycle through the
\* Memory's internal edge, a self loop, a Memory's output fed back to its own
\* write enable, input to input (closing a cycle with the feedback wire),
\* output to output, and endpoints the registry does not know.
ConnectionInputs ==
    {<<"c", "qq", "m", "ra">>, <<"c", "qq", "m", "we">>,
     <<"c", "qq", "m", "wa">>, <<"c", "qq", "m", "wv">>,
     <<"m", "rv", "m", "ra">>, <<"m", "we", "m", "we">>,
     <<"m", "rv", "m", "we">>, <<"m", "we", "m", "ra">>,
     <<"c", "qq", "m", "rv">>,
     <<"x", "qq", "m", "ra">>, <<"c", "qq", "m", "zz">>}

Init ==
    /\ devices = EmptyMap
    /\ ports = EmptyMap
    /\ dependencies = DiGraphNew
    /\ pc = "idle"
    /\ visited = {}
    /\ result = EmptyMap
    /\ ticked = {}
    /\ ret = "new"
    /\ history = <<>>
    /\ n_add_device = 0

\* add_device, first loop: a node and a registry entry per input port
RECURSIVE AddInputPorts(_, _, _)
AddInputPorts(st, id, ins) ==
    IF ins = <<>> THEN st
    ELSE LET g == add_node(st.graph, <<id, Head(ins)>>)
         IN  AddInputPorts([graph |-> g,
                            ports |-> Insert(st.ports, <<id, Head(ins)>>, Len(g.nodes))],
                           id, Tail(ins))

\* add_device without its inner loop: no Internal edge is added
AddInternalEdgesNone(graph, prts, id, index, deps) == graph

\* add_device, inner loop: an Internal edge from each dependency to the output
RECURSIVE AddInternalEdges(_, _, _, _, _)
AddInternalEdges(graph, prts, id, index, deps) ==
    IF deps = {} THEN graph
    ELSE LET dep == CHOOSE d \in deps : TRUE
         IN  AddInternalEdges(add_edge(graph, prts[<<id, dep>>], index, "Internal"),
                              prts, id, index, deps \ {dep})

\* add_device, second loop: a node, a registry entry and the internal edges
\* per output port
RECURSIVE AddOutputPorts(_, _, _, _)
AddOutputPorts(st, id, device, outs) ==
    IF outs = <<>> THEN st
    ELSE LET g == add_node(st.graph, <<id, Head(outs)>>)
             index == Len(g.nodes)
             p == Insert(st.ports, <<id, Head(outs)>>, index)
             port_deps == get_output_dependencies(device, Head(outs)).val
         IN  AddOutputPorts([graph |-> AddInternalEdges(g, p, id, index, port_deps),
                             ports |-> p],
                            id, device, Tail(outs))

\* Controller::add_device
AddDevice(id, device) ==
    /\ pc = "idle"
    /\ n_add_device < MaxAddDevice
    /\ LET st1 == AddInputPorts([graph |-> dependencies, ports |-> ports], id,
                                SetToSeq(get_input_ports(device)))
           st2 == AddOutputPorts(st1, id, device, SetToSeq(get_output_ports(device)))
       IN  /\ dependencies' = st2.graph
           /\ ports' = st2.ports
           /\ devices' = Insert(devices, id, device)
    /\ ret' = "add_device"
    /\ n_add_device' = n_add_device + 1
    /\ UNCHANGED <<pc, visited, result, ticked, history>>

\* the External edges of the graph, parallel ones counted
NumConnections ==
    CountCopies(dependencies.edges, {e \in EdgeSet(dependencies) : e.kind = "External"})

\* add_connection dropping the Result of try_add_edge: Ok(()) is returned
\* whether or not the edge went in
AddConnectionResultIgnored(from_device, from_port, to_device, to_port) ==
    /\ pc = "idle"
    /\ NumConnections < MaxConnections
    /\ IF <<from_device, from_port>> \notin DOMAIN ports
       THEN ret' = "connect_err_from" /\ UNCHANGED dependencies
       ELSE IF <<to_device, to_port>> \notin DOMAIN ports
       THEN ret' = "connect_err_to" /\ UNCHANGED dependencies
       ELSE LET from_idx == ports[<<from_device, from_port>>]
                to_idx == ports[<<to_device, to_port>>]
                added == try_add_edge(dependencies, from_idx, to_idx, "External")
            IN  /\ ret' = "connect_ok"
                /\ dependencies' = IF added.ok THEN added.val ELSE dependencies
    /\ pc' = "idle"
    /\ UNCHANGED <<devices, ports, visited, result, ticked, history, n_add_device>>

\* add_connection adding the edge to self.dependencies itself and checking
\* for a cycle afterwards
AddConnectionCommitFirst(from_device, from_port, to_device, to_port) ==
    /\ pc = "idle"
    /\ NumConnections < MaxConnections
    /\ IF <<from_device, from_port>> \notin DOMAIN ports
       THEN ret' = "connect_err_from" /\ UNCHANGED dependencies
       ELSE IF <<to_device, to_port>> \notin DOMAIN ports
       THEN ret' = "connect_err_to" /\ UNCHANGED dependencies
       ELSE LET from_idx == ports[<<from_device, from_port>>]
                to_idx == ports[<<to_device, to_port>>]
                added == add_edge(dependencies, from_idx, to_idx, "External")
            IN  /\ dependencies' = added
                /\ ret' = IF try_from_graph(added).ok
                          THEN "connect_ok" ELSE "connect_err_cycle"
    /\ pc' = "idle"
    /\ UNCHANGED <<devices, ports, visited, result, ticked, history, n_add_device>>

\* add_connection looking up the "to" port with a default: a "to" pair the
\* registry does not hold ends the call with Ok(()) and nothing added
AddConnectionToUnchecked(from_device, from_port, to_device, to_port) ==
    /\ pc = "idle"
    /\ NumConnections < MaxConnections
    /\ IF <<from_device, from_port>> \notin DOMAIN ports
       THEN ret' = "connect_err_from" /\ UNCHANGED dependencies
       ELSE IF <<to_device, to_port>> \notin DOMAIN ports
       THEN ret' = "connect_ok" /\ UNCHANGED dependencies
       ELSE LET from_idx == ports[<<from_device, from_port>>]
                to_idx == ports[<<to_device, to_port>>]
                added == try_add_edge(dependencies, from_idx, to_idx, "External")
            IN  IF ~added.ok
                THEN ret' = "connect_err_cycle" /\ UNCHANGED dependencies
                ELSE ret' = "connect_ok" /\ dependencies' = added.val
    /\ pc' = "idle"
    /\ UNCHANGED <<devices, ports, visited, result, ticked, history, n_add_device>>

\* Controller::add_connection
AddConnection(from_device, from_port, to_device, to_port) ==
    /\ pc = "idle"
    /\ NumConnections < MaxConnections
    /\ IF <<from_device, from_port>> \notin DOMAIN ports
       THEN ret' = "connect_err_from" /\ UNCHANGED dependencies
       ELSE IF <<to_device, to_port>> \notin DOMAIN ports
       THEN ret' = "connect_err_to" /\ UNCHANGED dependencies
       ELSE LET from_idx == ports[<<from_device, from_port>>]
                to_idx == ports[<<to_device, to_port>>]
                acyclic == try_from_graph(dependencies)
            IN  IF ~acyclic.ok
                THEN ret' = "panic_cyclic" /\ UNCHANGED dependencies
                ELSE LET added == try_add_edge(acyclic.val, from_idx, to_idx, "External")
                     IN  IF ~added.ok
                         THEN ret' = "connect_err_cycle" /\ UNCHANGED dependencies
                         ELSE ret' = "connect_ok" /\ dependencies' = added.val
    /\ pc' = IF ret' = "panic_cyclic" THEN "panicked" ELSE "idle"
    /\ UNCHANGED <<devices, ports, visited, result, ticked, history, n_add_device>>

\* nodes_iter over a graph that is not sorted: the next node of the loop is
\* any node not yet visited
ReadyNodesUnsorted(graph, done) == NodeIndices(graph) \ done

\* Acyclic::nodes_iter yields the nodes in a topological order of the graph.
\* Which one is not fixed by the controller, so the next node of the loop is
\* any node not yet visited whose predecessors have all been visited.
ReadyNodes(graph, done) ==
    {n \in NodeIndices(graph) \ done :
        \A e \in IncomingEdges(graph, n) : e.from \in done}

\* the port loop without its last statement (result.insert for an input
\* port): the value is handed to the device and not recorded
VisitPortInputNotRecorded(devs, graph, res, port_idx) ==
    LET device_id == graph.nodes[port_idx][1]
        port_id == graph.nodes[port_idx][2]
        device == devs[device_id]
        same(status) == [status |-> status, devices |-> devs, result |-> res]
    IN  IF port_id \in get_output_ports(device)
        THEN LET v == get_port_value(device, port_id)
             IN  IF ~v.ok THEN same("panic_port_value_err")
                 ELSE IF ~v.val.some THEN same("panic_output_unknown")
                 ELSE [status |-> "next", devices |-> devs,
                       result |-> Insert(res, <<device_id, port_id>>, v.val.val)]
        ELSE IF port_id \in get_input_ports(device)
        THEN LET n == n_incoming(graph, port_idx)
             IN  IF n = 0 THEN same("tick_err_unconnected")
                 ELSE IF n # 1 THEN same("panic_multiple_incoming")
                 ELSE LET src == graph.nodes[(CHOOSE e \in IncomingEdges(graph, port_idx) : TRUE).from]
                          value == get_port_value(devs[src[1]], src[2])
                      IN  IF ~value.ok THEN same("panic_port_value_err")
                          ELSE IF ~value.val.some THEN same("panic_output_unknown")
                          ELSE LET given == provide_port_value(device, port_id, value.val.val)
                               IN  IF ~given.ok THEN same("panic_provide_port_value")
                                   ELSE [status |-> "next",
                                         devices |-> Insert(devs, device_id, given.self),
                                         result |-> res]
        ELSE same("next")

\* One iteration of the port loop of Controller::tick, for the node port_idx:
\* [status, devices, result], status "next" when the loop goes on, otherwise
\* the return site or the failed expect.
VisitPort(devs, graph, res, port_idx) ==
    LET device_id == graph.nodes[port_idx][1]
        port_id == graph.nodes[port_idx][2]
        device == devs[device_id]
        same(status) == [status |-> status, devices |-> devs, result |-> res]
    IN  IF port_id \in get_output_ports(device)
        THEN LET v == get_port_value(device, port_id)
             IN  IF ~v.ok THEN same("panic_port_value_err")
                 ELSE IF ~v.val.some THEN same("panic_output_unknown")
                 ELSE [status |-> "next", devices |-> devs,
                       result |-> Insert(res, <<device_id, port_id>>, v.val.val)]
        ELSE IF port_id \in get_input_ports(device)
        THEN LET n == n_incoming(graph, port_idx)
             IN  IF n = 0 THEN same("tick_err_unconnected")
                 ELSE IF n # 1 THEN same("panic_multiple_incoming")
                 ELSE LET output_port_idx ==
                              (CHOOSE e \in IncomingEdges(graph, port_idx) : TRUE).from
                          output_device_id == graph.nodes[output_port_idx][1]
                          output_port_id == graph.nodes[output_port_idx][2]
                          output_device == devs[output_device_id]
                          value == get_port_value(output_device, output_port_id)
                      IN  IF ~value.ok THEN same("panic_port_value_err")
                          ELSE IF ~value.val.some THEN same("panic_output_unknown")
                          ELSE LET given == provide_port_value(device, port_id, value.val.val)
                               IN  IF ~given.ok THEN same("panic_provide_port_value")
                                   ELSE [status |-> "next",
                                         devices |-> Insert(devs, device_id, given.self),
                                         result |-> Insert(res, <<device_id, port_id>>,
                                                           value.val.val)]
        ELSE same("next")

\* the expect and panic! sites of the controller
Panics == {"panic_cyclic", "panic_port_value_err", "panic_output_unknown",
           "panic_multiple_incoming", "panic_provide_port_value"}

IsPanic(status) == status \in Panics

\* Controller::tick, up to the port loop
TickBegin ==
    /\ pc = "idle"
    /\ Len(history) < MaxTicks
    /\ IF try_from_graph(dependencies).ok
       THEN /\ pc' = IF NodeIndices(dependencies) = {} THEN "commit" ELSE "ports"
            /\ ret' = "tick"
       ELSE /\ pc' = "panicked"
            /\ ret' = "panic_cyclic"
    /\ visited' = {}
    /\ result' = EmptyMap
    /\ ticked' = {}
    /\ UNCHANGED <<devices, ports, dependencies, history, n_add_device>>

\* the port loop undoing, on its error return, what the devices were handed:
\* the values supplied to a Memory are dropped before Err is returned
TickPortRollback(port_idx) ==
    /\ pc = "ports"
    /\ port_idx \in ReadyNodes(dependencies, visited)
    /\ LET step == VisitPort(devices, dependencies, result, port_idx)
       IN  IF step.status = "next"
           THEN /\ devices' = step.devices
                /\ visited' = visited \cup {port_idx}
                /\ result' = step.result
                /\ pc' = IF visited' = NodeIndices(dependencies)
                         THEN "commit" ELSE "ports"
                /\ UNCHANGED <<ret, history>>
           ELSE /\ devices' = [id \in DOMAIN devices |->
                                 IF devices[id].kind = "Memory"
                                 THEN [devices[id] EXCEPT !.specified_this_tick = EmptyMap]
                                 ELSE devices[id]]
                /\ visited' = {}
                /\ result' = EmptyMap
                /\ ret' = step.status
                /\ IF IsPanic(step.status)
                   THEN pc' = "panicked" /\ UNCHANGED history
                   ELSE pc' = "idle" /\ history' = Append(history, Err)
    /\ UNCHANGED <<ports, dependencies, ticked, n_add_device>>

\* Controller::tick, one iteration of the port loop
TickPort(port_idx) ==
    /\ pc = "ports"
    /\ port_idx \in ReadyNodes(dependencies, visited)
    /\ LET step == VisitPort(devices, dependencies, result, port_idx)
       IN  /\ devices' = step.devices
           /\ IF step.status = "next"
              THEN /\ visited' = visited \cup {port_idx}
                   /\ result' = step.result
                   /\ pc' = IF visited' = NodeIndices(dependencies)
                            THEN "commit" ELSE "ports"
                   /\ UNCHANGED <<ret, history>>
              ELSE /\ visited' = {}
                   /\ result' = EmptyMap
                   /\ ret' = step.status
                   /\ IF IsPanic(step.status)
                      THEN pc' = "panicked" /\ UNCHANGED history
                      ELSE pc' = "idle" /\ history' = Append(history, Err)
    /\ UNCHANGED <<ports, dependencies, ticked, n_add_device>>

\* the loop over the devices dropping the Result of tick(): a device whose
\* tick fails is passed over and the loop goes on
TickDeviceErrorIgnored(id) ==
    /\ pc = "commit"
    /\ id \in (DOMAIN devices) \ ticked
    /\ devices' = Insert(devices, id, device_tick(devices[id]).self)
    /\ ticked' = ticked \cup {id}
    /\ UNCHANGED <<pc, visited, result, ret, history>>
    /\ UNCHANGED <<ports, dependencies, n_add_device>>

\* the loop over the devices fused into the port loop: a device is ticked
\* while ports are still being resolved
TickDeviceDuringPorts(id) ==
    /\ pc \in {"ports", "commit"}
    /\ id \in (DOMAIN devices) \ ticked
    /\ LET done == device_tick(devices[id])
       IN  IF done.ok
           THEN /\ devices' = Insert(devices, id, done.self)
                /\ ticked' = ticked \cup {id}
                /\ UNCHANGED <<pc, visited, result, ret, history>>
           ELSE /\ devices' = Insert(devices, id, done.self)
                /\ ticked' = {}
                /\ visited' = {}
                /\ result' = EmptyMap
                /\ pc' = "idle"
                /\ ret' = "tick_err_device"
                /\ history' = Append(history, Err)
    /\ UNCHANGED <<ports, dependencies, n_add_device>>

\* Controller::tick, one iteration of the loop over self.devices.values_mut(),
\* a HashMap's iteration order being any order
TickDevice(id) ==
    /\ pc = "commit"
    /\ id \in (DOMAIN devices) \ ticked
    /\ LET done == device_tick(devices[id])
       IN  IF done.ok
           THEN /\ devices' = Insert(devices, id, done.self)
                /\ ticked' = ticked \cup {id}
                /\ UNCHANGED <<pc, visited, result, ret, history>>
           ELSE /\ devices' = Insert(devices, id, done.self)
                /\ ticked' = {}
                /\ visited' = {}
                /\ result' = EmptyMap
                /\ pc' = "idle"
                /\ ret' = "tick_err_device"
                /\ history' = Append(history, Err)
    /\ UNCHANGED <<ports, dependencies, n_add_device>>

\* Controller::tick, Ok(result)
TickReturn ==
    /\ pc = "commit"
    /\ ticked = DOMAIN devices
    /\ pc' = "idle"
    /\ ret' = "tick_ok"
    /\ history' = Append(history, Ok(result))
    /\ visited' = {}
    /\ result' = EmptyMap
    /\ ticked' = {}
    /\ UNCHANGED <<devices, ports, dependencies, n_add_device>>

Next ==
    \/ \E d \in DeviceInputs : AddDevice(d[1], d[2])
    \/ \E c \in ConnectionInputs : AddConnection(c[1], c[2], c[3], c[4])
    \/ TickBegin
    \/ \E n \in NodeIndices(dependencies) : TickPort(n)
    \/ \E id \in DOMAIN devices : TickDevice(id)
    \/ TickReturn

Spec == Init /\ [][Next]_vars

\* The runs that only build the circuit.  tick writes neither the registry nor
\* the graph, and add_device and add_connection read no device state, so the
\* registries and graphs of these runs are those of all runs.
NextWiring ==
    \/ \E d \in DeviceInputs : AddDevice(d[1], d[2])
    \/ \E c \in ConnectionInputs : AddConnection(c[1], c[2], c[3], c[4])

SpecWiring == Init /\ [][NextWiring]_vars

\* ------------------------------------------------------------------ the device loop on its own

PortValues == 0..MaxValue

\* the states provide_port_values leaves a Memory in: any of its inputs
\* supplied, with any value
SuppliedMemories ==
    {[MemoryNew EXCEPT !.specified_this_tick = m] :
        m \in UNION {[S -> PortValues] : S \in SUBSET MemoryNew.in_ports}}

\* The loop over self.devices.values_mut() that ends Controller::tick, started
\* over a Memory, a Constant and a Sequencer with the Memory in any of these
\* states.  Through add_device and add_connection the loop is reached only
\* once every input of every Memory has been supplied, and then no device's
\* tick fails; the loop itself reads nothing but the devices it is given.
InitCommit ==
    /\ devices \in {[id \in {"m", "c", "s"} |->
                        CASE id = "m" -> mem
                          [] id = "c" -> ConstantNew("qq", 1)
                          [] id = "s" -> seq] :
                    mem \in SuppliedMemories,
                    seq \in {SequencerNew("qq", <<0, 1>>).val,
                             SequencerTick(SequencerNew("qq", <<0, 1>>).val).self}}
    /\ ports = EmptyMap
    /\ dependencies = DiGraphNew
    /\ pc = "commit"
    /\ visited = {}
    /\ result = EmptyMap
    /\ ticked = {}
    /\ ret = "tick"
    /\ history = <<>>
    /\ n_add_device = 0

NextCommit ==
    \/ \E id \in DOMAIN devices : TickDevice(id)
    \/ TickReturn

SpecCommit == InitCommit /\ [][NextCommit]_vars

\* ------------------------------------------------------------------ a device on its own

\* the port names a caller hands to a device: the ports of a Memory and qq,
\* the output of the Constant and of the Sequencer, which a Memory does not
\* declare
PortNames == {"ra", "we", "wa", "wv", "rv", "qq"}

\* the maps handed to provide_port_values
SupplyInputs ==
    UNION {[S -> PortValues] : S \in {T \in SUBSET PortNames : Cardinality(T) <= MaxBatch}}

\* the device under test
Dut == devices["dut"]

\* A device held by its caller, as the unit tests of the devices hold it:
\* devices has the one device, history the last call made on it (the
\* operation, the ports it named and whether it returned Ok), ret its
\* return site and result the map the call returned in Ok.  The controller's
\* other variables stay as Controller::new leaves them.
InitDevice ==
    /\ devices \in {[id \in {"dut"} |-> d] :
                    d \in {MemoryNew, ConstantNew("qq", 1),
                           SequencerNew("qq", <<0, 1>>).val}}
    /\ ports = EmptyMap
    /\ dependencies = DiGraphNew
    /\ pc = "idle"
    /\ visited = {}
    /\ result = EmptyMap
    /\ ticked = {}
    /\ ret = "new"
    /\ history = <<>>
    /\ n_add_device = 0

\* device.provide_port_values(values)
DeviceProvidePortValues(values) ==
    /\ LET r == provide_port_values(Dut, values)
       IN  /\ devices' = [devices EXCEPT !["dut"] = r.self]
           /\ ret' = IF r.ok THEN "provide_ok" ELSE "provide_err"
           /\ history' = <<[op |-> "provide_port_values", ports |-> DOMAIN values,
                            ok |-> r.ok]>>
           /\ result' = IF r.ok THEN r.val ELSE EmptyMap
    /\ UNCHANGED <<ports, dependencies, pc, visited, ticked, n_add_device>>

\* device.provide_port_value(port, value)
DeviceProvidePortValue(port, value) ==
    /\ LET r == provide_port_value(Dut, port, value)
       IN  /\ devices' = [devices EXCEPT !["dut"] = r.self]
           /\ ret' = IF r.ok THEN "provide_ok" ELSE "provide_err"
           /\ history' = <<[op |-> "provide_port_value", ports |-> {port},
                            ok |-> r.ok]>>
           /\ result' = EmptyMap
    /\ UNCHANGED <<ports, dependencies, pc, visited, ticked, n_add_device>>

\* device.tick()
DeviceTick ==
    /\ LET r == device_tick(Dut)
       IN  /\ devices' = [devices EXCEPT !["dut"] = r.self]
           /\ ret' = IF r.ok THEN "device_tick_ok" ELSE "device_tick_err"
           /\ history' = <<[op |-> "tick", ports |-> {}, ok |-> r.ok]>>
           /\ result' = EmptyMap
    /\ UNCHANGED <<ports, dependencies, pc, visited, ticked, n_add_device>>

NextDevice ==
    \/ \E values \in SupplyInputs : DeviceProvidePortValues(values)
    \/ \E port \in PortNames, value \in PortValues : DeviceProvidePortValue(port, value)
    \/ DeviceTick

SpecDevice == InitDevice /\ [][NextDevice]_vars

\* ------------------------------------------------------------------ a Constant or Sequencer on its own

\* the lists handed to Sequencer::new: the empty one, every list of up to
\* MaxLen port values, and the list of the wraparound test
SequencerInputs ==
    UNION {[1..n -> PortValues] : n \in 0..MaxLen} \cup {<<1, 2, 3>>}

\* A Constant or a Sequencer built by its caller and taken through the loop
\* of its unit tests: get_port_value on the output port, then tick.  devices
\* is empty until the constructor has returned a device; history holds what
\* get_port_value returned in each round, oldest first.
InitSource ==
    /\ devices = EmptyMap
    /\ ports = EmptyMap
    /\ dependencies = DiGraphNew
    /\ pc = "idle"
    /\ visited = {}
    /\ result = EmptyMap
    /\ ticked = {}
    /\ ret = "new"
    /\ history = <<>>
    /\ n_add_device = 0

\* Constant::new("qq", value)
ConstructConstant(value) ==
    /\ ret = "new"
    /\ devices' = [id \in {"dut"} |-> ConstantNew("qq", value)]
    /\ ret' = "constant_new"
    /\ UNCHANGED <<ports, dependencies, pc, visited, result, ticked, history, n_add_device>>

\* Sequencer::new("qq", values)
ConstructSequencer(values) ==
    /\ ret = "new"
    /\ LET r == SequencerNew("qq", values)
       IN  /\ devices' = IF r.ok THEN [id \in {"dut"} |-> r.val] ELSE devices
           /\ ret' = IF r.ok THEN "sequencer_new_ok" ELSE "sequencer_new_err"
    /\ UNCHANGED <<ports, dependencies, pc, visited, result, ticked, history, n_add_device>>

\* one round of the test loop: get_port_value(&port).unwrap(), then tick()
SourceRound ==
    /\ "dut" \in DOMAIN devices
    /\ Len(history) < MaxSourceTicks
    /\ LET value == get_port_value(Dut, Dut.output_port)
           r == device_tick(Dut)
       IN  /\ value.ok
           /\ history' = Append(history, value.val)
           /\ devices' = [devices EXCEPT !["dut"] = r.self]
           /\ ret' = IF r.ok THEN "device_tick_ok" ELSE "device_tick_err"
    /\ UNCHANGED <<ports, dependencies, pc, visited, result, ticked, n_add_device>>

NextSource ==
    \/ \E value \in PortValues : ConstructConstant(value)
    \/ \E values \in SequencerInputs : ConstructSequencer(values)
    \/ SourceRound

SpecSource == InitSource /\ [][NextSource]_vars

\* ------------------------------------------------------------------ a Memory with a preloaded store

\* A Memory held by its caller and loaded before use, as the unit test
\* memory_can_be_read loads it: memory.data.insert(address, value) on the new
\* Memory, then calls of provide_port_value and tick.  history, ret and result
\* are those of the device on its own.
InitStore ==
    /\ devices = [id \in {"dut"} |-> MemoryNew]
    /\ ports = EmptyMap
    /\ dependencies = DiGraphNew
    /\ pc = "idle"
    /\ visited = {}
    /\ result = EmptyMap
    /\ ticked = {}
    /\ ret = "new"
    /\ history = <<>>
    /\ n_add_device = 0

\* memory.data.insert(address, value), before the first call on the device
Preload(address, value) ==
    /\ history = <<>>
    /\ devices' = [devices EXCEPT !["dut"].data = Insert(@, address, value)]
    /\ ret' = "preload"
    /\ UNCHANGED <<ports, dependencies, pc, visited, result, ticked, history,
                   n_add_device>>

NextStore ==
    \/ \E address \in PortValues, value \in PortValues : Preload(address, value)
    \/ \E port \in PortNames, value \in PortValues : DeviceProvidePortValue(port, value)
    \/ DeviceTick

SpecStore == InitStore /\ [][NextStore]_vars

\* ------------------------------------------------------------------ a Memory registered again

\* the wires of these runs: the Constant's output into each input of the Memory
RewireInputs ==
    {<<"c", "qq", "m", "ra">>, <<"c", "qq", "m", "we">>,
     <<"c", "qq", "m", "wa">>, <<"c", "qq", "m", "wv">>}

\* The controller as add_device("c", Constant::new("qq", 1)) leaves a new
\* controller: the Constant, its node and its registry entry.  n_add_device
\* counts the add_device calls made from here on.
InitReregister ==
    /\ LET st == AddOutputPorts([graph |-> DiGraphNew, ports |-> EmptyMap], "c",
                                ConstantNew("qq", 1),
                                SetToSeq(get_output_ports(ConstantNew("qq", 1))))
       IN  /\ dependencies = st.graph
           /\ ports = st.ports
    /\ devices = Insert(EmptyMap, "c", ConstantNew("qq", 1))
    /\ pc = "idle"
    /\ visited = {}
    /\ result = EmptyMap
    /\ ticked = {}
    /\ ret = "add_device"
    /\ history = <<>>
    /\ n_add_device = 0

\* The runs that register a Memory under "m", once or again, wire the
\* Constant into its inputs and tick.
NextReregister ==
    \/ AddDevice("m", MemoryNew)
    \/ \E c \in RewireInputs : AddConnection(c[1], c[2], c[3], c[4])
    \/ TickBegin
    \/ \E n \in NodeIndices(dependencies) : TickPort(n)
    \/ \E id \in DOMAIN devices : TickDevice(id)
    \/ TickReturn

SpecReregister == InitReregister /\ [][NextReregister]_vars

\* ------------------------------------------------------------------ vocabulary of the claims

\* a directed path of one or more edges from n back to n
OnCycle(graph, n) ==
    n \in Reach(EdgeSet(graph), {e.to : e \in {f \in EdgeSet(graph) : f.from = n}})

HasCycle(graph) == \E n \in NodeIndices(graph) : OnCycle(graph, n)

ExternalEdges == {e \in EdgeSet(dependencies) : e.kind = "External"}

InternalEdges == {e \in EdgeSet(dependencies) : e.kind = "Internal"}

\* the node is an input (output) port of the device registered under its identifier
IsInputNode(n) ==
    /\ dependencies.nodes[n][1] \in DOMAIN devices
    /\ dependencies.nodes[n][2] \in get_input_ports(devices[dependencies.nodes[n][1]])

IsOutputNode(n) ==
    /\ dependencies.nodes[n][1] \in DOMAIN devices
    /\ dependencies.nodes[n][2] \in get_output_ports(devices[dependencies.nodes[n][1]])

\* no identifier was registered twice: every node is the registry's node for
\* its own (device, port) pair
RegisteredOnce ==
    \A n \in NodeIndices(dependencies) : ports[dependencies.nodes[n]] = n

ConnectErrors == {"connect_err_from", "connect_err_to", "connect_err_cycle"}

TickErrors == {"tick_err_unconnected", "tick_err_device"}

\* ------------------------------------------------------------------ C1

\* C1: after any sequence of add_device and add_connection calls, successful
\* or failed, the dependency graph (Internal and External edges together)
\* has no directed cycle.
C1_GraphAcyclic == ~HasCycle(dependencies)

\* a cycle-closing add_connection was just refused on a graph that holds both
\* kinds of edge
C1_Witness ==
    /\ ret = "connect_err_cycle"
    /\ ExternalEdges # {}
    /\ InternalEdges # {}

\* ------------------------------------------------------------------ C2

\* C2: add_connection(from, to) with both endpoints registered returns an
\* error whenever the edge from -> to would close a directed cycle: a step
\* either ends at an Err return of add_connection, or it is not a call with
\* registered endpoints whose edge closes a cycle.
C2_CycleRejected ==
    [][\/ ret' \in ConnectErrors
       \/ \A c \in ConnectionInputs :
             ~( /\ <<c[1], c[2]>> \in DOMAIN ports
                /\ <<c[3], c[4]>> \in DOMAIN ports
                /\ AddConnection(c[1], c[2], c[3], c[4])
                /\ HasCycle(add_edge(dependencies, ports[<<c[1], c[2]>>],
                                     ports[<<c[3], c[4]>>], "External")) )]_vars

\* the call was refused for closing a cycle, in a graph that already has a wire
C2_Witness ==
    /\ ret = "connect_err_cycle"
    /\ ExternalEdges # {}

\* ------------------------------------------------------------------ C3

\* C3: whenever add_connection returns an error, the node set, the edge set,
\* the port registry and the device set are what they were before the call.
\* Only add_connection ends at one of the ConnectErrors return sites.
C3_ErrorLeavesStateUnchanged ==
    [][ret' \in ConnectErrors => UNCHANGED <<dependencies, ports, devices>>]_vars

\* a refused call on a controller that holds nodes and a wire
C3_Witness ==
    /\ ret \in ConnectErrors
    /\ dependencies.nodes # <<>>
    /\ ExternalEdges # {}

\* ------------------------------------------------------------------ C4

\* C4: every input port node has at most one incoming edge; a second wire
\* into the same input port is rejected at wiring time.
C4_AtMostOneIncoming ==
    \A n \in NodeIndices(dependencies) :
        IsInputNode(n) => n_incoming(dependencies, n) <= 1

\* ------------------------------------------------------------------ C5

\* C5: tick returns Ok or Err on every circuit add_device and add_connection
\* can build; no panic or failed expect is reachable.  Stated for the circuits
\* in which no identifier was registered twice, the mis-wired circuits the
\* claim names among them.
C5_TickNeverAborts == RegisteredOnce => pc # "panicked"

\* ------------------------------------------------------------------ C6

\* a registered device has an input port with no incoming wire
HasUnconnectedInput ==
    \E k \in DOMAIN ports :
        /\ k[2] \in get_input_ports(devices[k[1]])
        /\ n_incoming(dependencies, ports[k]) = 0

\* every wire runs from an output port to an input port, one wire per input
WellWired ==
    \A e \in ExternalEdges :
        /\ IsOutputNode(e.from)
        /\ IsInputNode(e.to)
        /\ n_incoming(dependencies, e.to) = 1

\* C6: on a circuit with an unconnected input port every call to tick, the
\* first and every later one, returns an error, and none of them crashes.
\* Stated for the circuits whose wires are all output to input, one per input,
\* and in which no identifier was registered twice, so that no mis-wiring and
\* no stale node stands behind a crash.
C6_UnconnectedInputAlwaysErr ==
    (HasUnconnectedInput /\ WellWired /\ RegisteredOnce /\ ret \in {"tick_ok"} \cup TickErrors \cup Panics)
    => ret \in TickErrors

\* ------------------------------------------------------------------ C7

\* C7: during tick the ports are visited so that every edge's source comes
\* before its target: an output is resolved (its value recorded) before an
\* input wired to it is evaluated, the inputs an output depends on have been
\* supplied before the output is asked for its value, and the output's value
\* is known whenever it is asked for.
C7_TopologicalVisit ==
    /\ ret # "panic_output_unknown"
    /\ pc \in {"ports", "commit"} =>
         /\ \A e \in EdgeSet(dependencies) : e.to \in visited => e.from \in visited
         /\ \A n \in visited :
              /\ IsOutputNode(n) => dependencies.nodes[n] \in DOMAIN result
              /\ IsInputNode(n) =>
                   dependencies.nodes[n][2] \in
                      DOMAIN devices[dependencies.nodes[n][1]].specified_this_tick

\* ------------------------------------------------------------------ C8

\* one Memory "m" and one Constant "c", registered once each, with c.qq wired
\* once to each of ra, we, wa and wv
C8_Circuit ==
    /\ Len(dependencies.nodes) = 6
    /\ DOMAIN devices = {"m", "c"}
    /\ devices["m"].kind = "Memory"
    /\ devices["c"].kind = "Constant"
    /\ devices["c"].value # 0
    /\ NumConnections = 4
    /\ \A p \in {"ra", "we", "wa", "wv"} :
          [from |-> ports[<<"c", "qq">>], to |-> ports[<<"m", p>>],
           kind |-> "External"] \in ExternalEdges

\* C8: with ra = wa = a, we nonzero and wv = v driven by constants, two
\* successive ticks both succeed; the first reports the old rv (0), the
\* second reports v.  The first tick reported m.rv, so it ran on this circuit:
\* it saw every input of m wired, and wires and nodes are never removed.
C8_WriteVisibleNextTick ==
    (/\ C8_Circuit
     /\ Len(history) >= 1
     /\ history[1].ok
     /\ <<"m", "rv">> \in DOMAIN history[1].val
     /\ (Len(history) = 2 \/ pc = "panicked"))
    => /\ history[1].val[<<"m", "rv">>] = 0
       /\ Len(history) = 2
       /\ history[2].ok
       /\ history[2].val[<<"m", "rv">>] = devices["c"].value

\* ------------------------------------------------------------------ C9

\* C9: after a device's tick() has returned successfully, its record of the
\* values supplied this tick is empty.
C9_SuppliedClearedAfterTick ==
    \A id \in ticked :
        devices[id].kind = "Memory" => devices[id].specified_this_tick = EmptyMap

\* ------------------------------------------------------------------ C10

\* C10: add_device with an identifier that is already registered fails and
\* leaves the existing device, its registry entries and its nodes as they were.
C10_DuplicateIdRejected ==
    [][\A d \in DeviceInputs :
          (AddDevice(d[1], d[2]) /\ d[1] \in DOMAIN devices)
          => UNCHANGED <<devices, ports, dependencies>>]_vars

\* ------------------------------------------------------------------ C11

\* C11: every External edge goes from an output port of one device to an
\* input port of a different device: add_connection rejects a "from" port
\* that is not an output and a "to" port that is not an input.  Stated for the
\* circuits in which no identifier was registered twice, so that every node is
\* a port of the device registered under its identifier.
C11_WiresOutputToInput ==
    RegisteredOnce =>
        \A e \in ExternalEdges :
            /\ IsOutputNode(e.from)
            /\ IsInputNode(e.to)
            /\ dependencies.nodes[e.from][1] # dependencies.nodes[e.to][1]

\* ------------------------------------------------------------------ C12

\* the registry holds neither or only one of the two pairs of the call
UnknownEndpoint(c) ==
    \/ <<c[1], c[2]>> \notin DOMAIN ports
    \/ <<c[3], c[4]>> \notin DOMAIN ports

\* C12: add_connection returns an error when the (from_device, from_port)
\* pair or the (to_device, to_port) pair is not in the port registry, the
\* device being unregistered or the port not declared by it; the graph is
\* left as it was.
C12_UnknownEndpointRejected ==
    [][\A c \in ConnectionInputs :
          (UnknownEndpoint(c) /\ AddConnection(c[1], c[2], c[3], c[4]))
          => /\ ret' \in {"connect_err_from", "connect_err_to"}
             /\ UNCHANGED dependencies]_vars

\* a call naming a pair the registry does not hold was refused on a controller
\* that has devices and a wire
C12_Witness ==
    /\ ret \in {"connect_err_from", "connect_err_to"}
    /\ DOMAIN devices # {}
    /\ ExternalEdges # {}

\* ------------------------------------------------------------------ C13

DeclaredInternalEdges(id, device, prts) ==
    {[from |-> prts[<<id, io[1]>>], to |-> prts[<<id, io[2]>>], kind |-> "Internal"] :
        io \in {x \in get_input_ports(device) \X get_output_ports(device) :
                  x[1] \in get_output_dependencies(device, x[2]).val}}

\* C14: registering a device with declared inputs I and outputs O adds exactly
\* |I| + |O| new nodes, one per declared port, and exactly one Internal edge
\* from input i to output o for each o in O and each i in
\* output_dependencies(o), and no other edge.
C14_RegistrationDeterminism ==
    [][\A d \in DeviceInputs :
          AddDevice(d[1], d[2]) =>
            LET I == get_input_ports(d[2])
                O == get_output_ports(d[2])
                n == Len(dependencies.nodes)
                new == (n + 1)..Len(dependencies'.nodes)
            IN  /\ Len(dependencies'.nodes) = n + Cardinality(I) + Cardinality(O)
                /\ SubSeq(dependencies'.nodes, 1, n) = dependencies.nodes
                /\ {dependencies'.nodes[k] : k \in new} = {<<d[1], p>> : p \in I \cup O}
                /\ \A p \in I \cup O : ports'[<<d[1], p>>] \in new
                /\ dependencies'.edges =
                      dependencies.edges (+)
                      SetToBag(DeclaredInternalEdges(d[1], d[2], ports'))]_vars

\* a device with a declared dependency was just registered on a controller
\* that already held nodes and a wire
C14_Witness ==
    /\ ret = "add_device"
    /\ n_add_device = 2
    /\ InternalEdges # {}
    /\ ExternalEdges # {}

\* ------------------------------------------------------------------ C15

\* what the last tick returned
LastTick == history[Len(history)]

\* C15: when tick succeeds, the returned map has exactly one entry for every
\* registered (device, port) pair, inputs and outputs alike, and no other
\* entry.  The registered pairs are the keys of the port registry.
C15_TickReturnsEveryPort ==
    ret = "tick_ok" => DOMAIN LastTick.val = DOMAIN ports

\* ------------------------------------------------------------------ C16

\* the wires from an output port to an input port
WiresOutputToInput ==
    {e \in ExternalEdges : IsOutputNode(e.from) /\ IsInputNode(e.to)}

\* in the map m the input end of every such wire has the value of its output end
WireValuesAgree(m) ==
    \A e \in WiresOutputToInput :
        LET p == dependencies.nodes[e.from]
            q == dependencies.nodes[e.to]
        IN  /\ p \in DOMAIN m
            /\ q \in DOMAIN m
            /\ m[q] = m[p]

\* C16: in a successful tick, for every wire from output port p to input port
\* q, the value recorded for q in the returned map equals the value recorded
\* for p in the same map, and that value is what was supplied to q's device.
\* The supplied values are read when the port loop has ended and no device has
\* been ticked yet.
C16_WireCarriesValue ==
    /\ (pc = "commit" /\ ticked = {}) =>
          /\ WireValuesAgree(result)
          /\ \A e \in WiresOutputToInput :
                LET q == dependencies.nodes[e.to]
                IN  /\ q[2] \in DOMAIN devices[q[1]].specified_this_tick
                    /\ devices[q[1]].specified_this_tick[q[2]] = result[q]
    /\ ret = "tick_ok" => WireValuesAgree(LastTick.val)

\* a tick returned Ok on a circuit with a wire into an input of a Memory
C16_Witness ==
    /\ ret = "tick_ok"
    /\ WiresOutputToInput # {}
    /\ LastTick.ok
    /\ \E id \in DOMAIN devices : devices[id].kind = "Memory"

\* ------------------------------------------------------------------ C17

\* every port the registered devices declare has a value in the tick's map,
\* and every input among them has been supplied to its device
AllPortsResolved ==
    \A id \in DOMAIN devices :
        /\ \A p \in get_input_ports(devices[id]) \cup get_output_ports(devices[id]) :
              <<id, p>> \in DOMAIN result
        /\ \A p \in get_input_ports(devices[id]) :
              p \in DOMAIN devices[id].specified_this_tick

\* C17: within one controller tick no device's tick() is invoked until every
\* port of every device has been resolved and supplied, and on a successful
\* controller tick each registered device's tick() is invoked exactly once.
\* A step that adds a device to ticked, or ends at the Err return of the
\* device loop, is an invocation of a device's tick(); a step that appends
\* Ok to the history is the successful return.
C17_CommitAfterResolution ==
    [][/\ (ticked' # ticked /\ ticked' # {}) =>
             /\ pc = "commit"
             /\ visited = NodeIndices(dependencies)
             /\ AllPortsResolved
             /\ \E id \in (DOMAIN devices) \ ticked : ticked' = ticked \cup {id}
       /\ (history' # history /\ ret' = "tick_err_device") => AllPortsResolved
       /\ (history' # history /\ ret' = "tick_ok") => ticked = DOMAIN devices]_vars

\* in the middle of the device loop of a circuit with a wired Memory: one
\* device has been ticked, another has not
C17_Witness ==
    /\ pc = "commit"
    /\ ticked # {}
    /\ ticked # DOMAIN devices
    /\ WiresOutputToInput # {}

\* ------------------------------------------------------------------ C18

\* C18: if any registered device's tick() returns an error during the commit
\* phase, the controller's tick returns an error: a device whose tick fails
\* ends the call at the Err return, a device is passed only when its tick
\* returned Ok, and Ok is returned only after every device has been passed.
C18_DeviceErrorFailsTick ==
    [][/\ \A id \in (DOMAIN devices) \ ticked :
             /\ (TickDevice(id) /\ ~device_tick(devices[id]).ok) =>
                   /\ ret' = "tick_err_device"
                   /\ history' = Append(history, Err)
                   /\ pc' = "idle"
             /\ (pc = "commit" /\ ticked' = ticked \cup {id}) =>
                   device_tick(devices[id]).ok
       /\ (history' # history /\ ret' = "tick_ok") => ticked = DOMAIN devices]_vars

\* the controller's tick returned Err from the device loop
C18_Witness ==
    /\ ret = "tick_err_device"
    /\ pc = "idle"
    /\ history = <<Err>>
    /\ ~device_tick(devices["m"]).ok

\* ------------------------------------------------------------------ C19

\* C19: supplying a value for an input port that has already been supplied in
\* the current tick fails, and the failure leaves the device's recorded values
\* unchanged: the earlier value of that port is kept and no other port of the
\* rejected batch is recorded.  The history after a step holds the call the
\* step made and the ports it named.
C19_DuplicateSupplyRejected ==
    [][(/\ history' # <<>>
        /\ history'[1].op = "provide_port_values"
        /\ Dut.kind = "Memory"
        /\ \E p \in history'[1].ports : p \in DOMAIN Dut.specified_this_tick)
       => /\ ret' = "provide_err"
          /\ devices' = devices]_vars

\* a batch naming a port supplied before and an input not supplied yet was
\* refused
C19_Witness ==
    /\ ret = "provide_err"
    /\ Dut.kind = "Memory"
    /\ history # <<>>
    /\ history[1].op = "provide_port_values"
    /\ \E p, q \in history[1].ports :
          /\ p \in DOMAIN Dut.specified_this_tick
          /\ q \in Dut.in_ports \ DOMAIN Dut.specified_this_tick

\* ------------------------------------------------------------------ C20

\* C20: supplying a value to a device fails when the named port is not
\* declared by the device or is an output port (Memory: any name outside ra,
\* we, wa, wv, rv included); Constant and Sequencer, having no input, reject
\* every supply, of a batch and of one port.  The device is left as it was.
C20_UndeclaredSupplyRejected ==
    [][(/\ history' # <<>>
        /\ history'[1].op \in {"provide_port_values", "provide_port_value"}
        /\ \/ Dut.kind # "Memory"
           \/ /\ history'[1].op = "provide_port_values"
              /\ \E p \in history'[1].ports : p \notin {"ra", "we", "wa", "wv"})
       => /\ ret' = "provide_err"
          /\ devices' = devices]_vars

\* a supply naming the output rv was refused by a Memory that holds values
C20_Witness ==
    /\ ret = "provide_err"
    /\ Dut.kind = "Memory"
    /\ Dut.specified_this_tick # EmptyMap
    /\ history # <<>>
    /\ "rv" \in history[1].ports

\* ------------------------------------------------------------------ C21

\* C21: Memory::tick fails if we was not supplied this tick; succeeds without
\* writing if we was supplied as 0, whether or not wa and wv were supplied;
\* fails if we was supplied nonzero and wa or wv is missing; and succeeds,
\* storing wv at address wa, if we is nonzero and both were supplied.  The
\* history after a step holds the call the step made.
C21_MemoryTickCases ==
    [][(/\ history' # <<>>
        /\ history'[1].op = "tick"
        /\ Dut.kind = "Memory")
       => LET s == Dut.specified_this_tick
              after == devices'["dut"]
          IN  /\ "we" \notin DOMAIN s => ret' = "device_tick_err"
              /\ ("we" \in DOMAIN s /\ s["we"] = 0) =>
                    /\ ret' = "device_tick_ok"
                    /\ after.data = Dut.data
              /\ (/\ "we" \in DOMAIN s
                  /\ s["we"] # 0
                  /\ ~({"wa", "wv"} \subseteq DOMAIN s)) => ret' = "device_tick_err"
              /\ (/\ "we" \in DOMAIN s
                  /\ s["we"] # 0
                  /\ {"wa", "wv"} \subseteq DOMAIN s) =>
                    /\ ret' = "device_tick_ok"
                    /\ after.data = Insert(Dut.data, s["wa"], s["wv"])]_vars

\* a Memory's tick has written a value
C21_Witness ==
    /\ ret = "device_tick_ok"
    /\ Dut.kind = "Memory"
    /\ Dut.data # EmptyMap
    /\ Dut.specified_this_tick["we"] # 0

\* ------------------------------------------------------------------ C22

\* the value a Memory holds at an address, 0 for an address never written
Stored(mem, address) ==
    IF address \in DOMAIN mem.data THEN mem.data[address] ELSE 0

\* C22: once ra = a has been supplied to a Memory in the current tick, its rv
\* output resolves to the value stored at address a, or to 0 if address a has
\* never been written, whatever we, wa and wv were supplied in the same tick;
\* the provide_port_values call that supplies ra returns that value for rv.
C22_ReadValueResolves ==
    (Dut.kind = "Memory" /\ "ra" \in DOMAIN Dut.specified_this_tick) =>
        LET a == Dut.specified_this_tick["ra"]
        IN  /\ MemoryGetOutputPortValues(Dut).rv =
                  [state |-> "Known", value |-> Stored(Dut, a)]
            /\ (/\ ret = "provide_ok"
                /\ history[1].op = "provide_port_values"
                /\ "ra" \in history[1].ports) => result = [rv |-> Stored(Dut, a)]

\* ra was just supplied and reads an address never written, while a write of
\* a nonzero value to that address is supplied in the same tick
C22_Witness ==
    /\ Dut.kind = "Memory"
    /\ ret = "provide_ok"
    /\ "ra" \in history[1].ports
    /\ {"ra", "we", "wa", "wv"} \subseteq DOMAIN Dut.specified_this_tick
    /\ Dut.specified_this_tick["ra"] \notin DOMAIN Dut.data
    /\ Dut.specified_this_tick["we"] # 0
    /\ Dut.specified_this_tick["wa"] = Dut.specified_this_tick["ra"]
    /\ Dut.specified_this_tick["wv"] # 0

\* ------------------------------------------------------------------ C30

\* C30: when a Memory's rv output is reported as Unknown (ra not yet supplied
\* this tick), the accompanying set names the input ports that still need to
\* be provided for rv to resolve, namely exactly {ra}.
C30_UnknownNamesReadAddress ==
    (Dut.kind = "Memory" /\ "ra" \notin DOMAIN Dut.specified_this_tick) =>
        MemoryGetOutputPortValues(Dut).rv = [state |-> "Unknown", required |-> {"ra"}]

\* ------------------------------------------------------------------ C23

\* the device under test is a Sequencer
DutIsSequencer == "dut" \in DOMAIN devices /\ Dut.kind = "Sequencer"

\* values[k mod n], the list being indexed from 1
ValueAfter(values, k) == values[(k % Len(values)) + 1]

\* C23: a Sequencer built from a non-empty list of n values exposes
\* values[k mod n] on its output after k ticks, for every k >= 0: the output
\* read before each tick so far, and the output now, after Len(history) ticks.
C23_SequencerWraparound ==
    DutIsSequencer =>
        /\ \A k \in 0..(Len(history) - 1) :
              history[k + 1] = Some(ValueAfter(Dut.values, k))
        /\ get_port_value(Dut, "qq") = Ok(Some(ValueAfter(Dut.values, Len(history))))

\* the Sequencer of [1, 2, 3] has been read and ticked 9 times
C23_Witness ==
    /\ DutIsSequencer
    /\ Dut.values = <<1, 2, 3>>
    /\ history = <<Some(1), Some(2), Some(3), Some(1), Some(2), Some(3),
                   Some(1), Some(2), Some(3)>>

\* ------------------------------------------------------------------ C24

\* the device under test is a Constant
DutIsConstant == "dut" \in DOMAIN devices /\ Dut.kind = "Constant"

\* every read so far returned what the output port returns now, and the last
\* call returned Ok
ConstantSteady ==
    DutIsConstant =>
        /\ \A k \in 1..Len(history) : Ok(history[k]) = get_port_value(Dut, "qq")
        /\ ret \in {"constant_new", "device_tick_ok"}

\* C24: a Constant constructed with value v reports v on its output port
\* before and after any number of tick() calls, and its tick() always succeeds
\* with no inputs supplied: the constructor's device reports v, and after
\* every step all reads so far agree with the present output.
C24_ConstantIdempotent ==
    [][/\ \A v \in PortValues :
             ConstructConstant(v) => get_port_value(devices'["dut"], "qq") = Ok(Some(v))
       /\ ConstantSteady']_vars

\* a Constant of a nonzero value has been read and ticked several times
C24_Witness ==
    /\ DutIsConstant
    /\ Len(history) >= 3
    /\ history[1] = Some(1)
    /\ ret = "device_tick_ok"

\* ------------------------------------------------------------------ C26

\* the cursor is inside the list and the output is known
CursorInRange ==
    DutIsSequencer =>
        /\ 0 <= Dut.current_value_idx
        /\ Dut.current_value_idx < Len(Dut.values)
        /\ get_port_value(Dut, "qq").ok
        /\ get_port_value(Dut, "qq").val.some

\* C26: constructing a Sequencer with an empty value list fails and with a
\* non-empty list succeeds; consequently in every reachable state the cursor
\* satisfies 0 <= cursor < number of values and querying the output port
\* yields a known value, never None.
C26_SequencerNonEmpty ==
    [][/\ \A values \in SequencerInputs :
             ConstructSequencer(values) =>
                /\ (values = <<>>) <=> (ret' = "sequencer_new_err")
                /\ (values = <<>>) => devices' = EmptyMap
                /\ (values # <<>>) => devices'["dut"].values = values
       /\ CursorInRange']_vars

\* the cursor of a Sequencer is back at the start after running through a
\* list of several values
C26_Witness ==
    /\ DutIsSequencer
    /\ Len(Dut.values) > 1
    /\ Len(history) = Len(Dut.values)
    /\ Dut.current_value_idx = 0

\* ------------------------------------------------------------------ C25

\* the registered devices are all devices without input ports
NoInputDevices ==
    \A id \in DOMAIN devices : get_input_ports(devices[id]) = {}

\* C25: Controller tick succeeds on a circuit with no devices and on any
\* circuit made only of devices without input ports (Constant, Sequencer),
\* for any number of successive ticks: no tick of such a circuit ends at an
\* Err return or at a failed expect, and every tick that has returned since
\* returned Ok.
C25_InputlessCircuitTicks ==
    [][NoInputDevices =>
          /\ ret' \notin TickErrors \cup Panics
          /\ pc' # "panicked"
          /\ history' # history => LastTick'.ok]_vars

\* a Constant and a Sequencer, ticked twice with success: the second tick
\* returned the Sequencer's second value
C25_Witness ==
    /\ NoInputDevices
    /\ DOMAIN devices = {"c", "m"}
    /\ ret = "tick_ok"
    /\ Len(history) = 2
    /\ history[1].ok /\ history[2].ok
    /\ <<"m", "rv">> \in DOMAIN history[1].val
    /\ history[1].val[<<"m", "rv">>] = 0
    /\ history[2].val[<<"m", "rv">>] = 1

\* ------------------------------------------------------------------ C27

\* C27: when a controller tick fails because an input port is unconnected,
\* every value that was supplied to a device earlier in that same tick is
\* still recorded in that device after the tick returns (no rollback), and no
\* device's tick() commit was invoked.  The input ports the failed tick went
\* through are the input nodes in visited, their values those of the tick's
\* map; no device had been ticked and the returning step changes no device.
C27_FailedTickKeepsSupplied ==
    [][(history' # history /\ ret' = "tick_err_unconnected") =>
          /\ pc = "ports"
          /\ ticked = {}
          /\ devices' = devices
          /\ \A n \in visited :
                IsInputNode(n) =>
                    LET q == dependencies.nodes[n]
                    IN  /\ q[2] \in DOMAIN devices'[q[1]].specified_this_tick
                        /\ devices'[q[1]].specified_this_tick[q[2]] = result[q]]_vars

\* the first tick of a run has failed on an unconnected input after a value
\* went into a Memory, which still holds it
C27_Witness ==
    /\ ret = "tick_err_unconnected"
    /\ pc = "idle"
    /\ Len(history) = 1
    /\ ~history[1].ok
    /\ \E id \in DOMAIN devices :
          /\ devices[id].kind = "Memory"
          /\ devices[id].specified_this_tick # EmptyMap

\* ------------------------------------------------------------------ C28

\* C28: after any sequence of add_device calls, the port registry and the
\* graph nodes are in one-to-one correspondence: every (device, port) key maps
\* to a node whose weight is that same pair, and every graph node is the image
\* of exactly one registry key.
C28_RegistryNodeBijection ==
    /\ \A k \in DOMAIN ports :
          /\ ports[k] \in NodeIndices(dependencies)
          /\ dependencies.nodes[ports[k]] = k
    /\ \A n \in NodeIndices(dependencies) :
          Cardinality({k \in DOMAIN ports : ports[k] = n}) = 1

\* ------------------------------------------------------------------ C29

\* C29: nodes and edges only accumulate: across any sequence of add_device,
\* add_connection and tick calls, every node and every edge present in the
\* graph at one point is still present, with the same endpoints and kind, at
\* every later point, and tick itself changes neither the graph nor the port
\* registry.  A step of tick is a step that starts or ends inside tick.
C29_GraphOnlyAccumulates ==
    [][/\ Len(dependencies.nodes) <= Len(dependencies'.nodes)
       /\ SubSeq(dependencies'.nodes, 1, Len(dependencies.nodes)) = dependencies.nodes
       /\ dependencies.edges \sqsubseteq dependencies'.edges
       /\ DOMAIN ports \subseteq DOMAIN ports'
       /\ (pc # "idle" \/ pc' # "idle") =>
             /\ dependencies' = dependencies
             /\ ports' = ports]_vars

\* a tick has returned on a graph with internal edges and wires, two of the
\* wires ending at the same node
C29_Witness ==
    /\ pc = "idle"
    /\ history # <<>>
    /\ InternalEdges # {}
    /\ \E e, f \in ExternalEdges : e # f /\ e.to = f.to

\* ------------------------------------------------------------------ C32

\* C32: Memory::tick changes the stored data only by setting address wa to wv
\* when it succeeds with we nonzero; every other address keeps its value, and
\* a tick that fails or that has we = 0 leaves the stored data entirely
\* unchanged.  Address by address, over the addresses the store holds before
\* or after the call.
C32_TickWritesOnlyWa ==
    [][(/\ history' # <<>>
        /\ history'[1].op = "tick"
        /\ Dut.kind = "Memory")
       => LET s == Dut.specified_this_tick
              after == devices'["dut"]
              writes == ret' = "device_tick_ok" /\ "we" \in DOMAIN s /\ s["we"] # 0
          IN  /\ \A a \in (DOMAIN Dut.data) \cup (DOMAIN after.data) :
                    IF writes /\ a = s["wa"]
                    THEN a \in DOMAIN after.data /\ after.data[a] = s["wv"]
                    ELSE /\ a \in DOMAIN Dut.data
                         /\ a \in DOMAIN after.data
                         /\ after.data[a] = Dut.data[a]
              /\ ~writes => after.data = Dut.data
              /\ writes => s["wa"] \in DOMAIN after.data]_vars

\* a tick has written wv at wa in a store that holds another value at another
\* address
C32_Witness ==
    /\ ret = "device_tick_ok"
    /\ {"we", "wa", "wv"} \subseteq DOMAIN Dut.specified_this_tick
    /\ Dut.specified_this_tick["we"] # 0
    /\ \E a \in DOMAIN Dut.data :
          /\ a # Dut.specified_this_tick["wa"]
          /\ Dut.data[a] # Dut.specified_this_tick["wv"]

\* ------------------------------------------------------------------ C33

\* the port loop can take the node n next, and its visit of n hands a value
\* to the input port n stands for: provide_port_value is called on the device
SuppliesInput(n) ==
    /\ pc = "ports"
    /\ n \in ReadyNodes(dependencies, visited)
    /\ IsInputNode(n)
    /\ VisitPort(devices, dependencies, result, n).status
          \in {"next", "panic_provide_port_value"}

\* C33: within a single controller tick, each input port of each registered
\* device is supplied with a value at most once, for every circuit reachable
\* by add_device and add_connection calls (including re-registration of an
\* identifier already in use).  An input port supplied earlier in the tick has
\* its (device, port) pair in the tick's map: whenever the port loop is about
\* to supply an input port, the pair is not there yet.
C33_InputSuppliedOnce ==
    \A n \in NodeIndices(dependencies) :
        SuppliesInput(n) => dependencies.nodes[n] \notin DOMAIN result

\* ------------------------------------------------------------------ C31

\* the port loop of Controller::tick run to its end from the nodes in done,
\* taking the ready nodes in one fixed order: the last VisitPort record
RECURSIVE FinishPorts(_, _, _, _)
FinishPorts(devs, graph, done, res) ==
    IF ReadyNodes(graph, done) = {}
    THEN [status |-> "next", devices |-> devs, result |-> res]
    ELSE LET port_idx == CHOOSE n \in ReadyNodes(graph, done) : TRUE
         IN  CHOOSE last \in
                 {IF step.status = "next"
                  THEN FinishPorts(step.devices, graph, done \cup {port_idx}, step.result)
                  ELSE step :
                     step \in {VisitPort(devs, graph, res, port_idx)}} : TRUE

\* the device loop of Controller::tick run to its end from the devices in
\* done, taking the devices in one fixed order
RECURSIVE FinishDevices(_, _)
FinishDevices(devs, done) ==
    IF done = DOMAIN devs THEN [ok |-> TRUE, devices |-> devs]
    ELSE LET id == CHOOSE d \in (DOMAIN devs) \ done : TRUE
         IN  CHOOSE last \in
                 {IF r.ok THEN FinishDevices(Insert(devs, id, r.self), done \cup {id})
                  ELSE [ok |-> FALSE] :
                     r \in {device_tick(devs[id])}} : TRUE

\* what the tick in progress returns and leaves when it goes on in that fixed
\* order: [ok, val (the returned map), devices], or [ok |-> FALSE] when it
\* does not return Ok
FixedOrderOutcome ==
    IF pc = "ports"
    THEN CHOOSE out \in
             {IF p.status # "next" THEN [ok |-> FALSE]
              ELSE CHOOSE o \in
                       {IF d.ok
                        THEN [ok |-> TRUE, val |-> p.result, devices |-> d.devices]
                        ELSE [ok |-> FALSE] :
                           d \in {FinishDevices(p.devices, {})}} : TRUE :
                 p \in {FinishPorts(devices, dependencies, visited, result)}} : TRUE
    ELSE IF pc = "commit"
    THEN CHOOSE out \in
             {IF d.ok THEN [ok |-> TRUE, val |-> result, devices |-> d.devices]
              ELSE [ok |-> FALSE] :
                 d \in {FinishDevices(devices, ticked)}} : TRUE
    ELSE [ok |-> FALSE]

====
